---- MODULE Spec2Model ----
(***************************************************************************)
(* Model of the input-processing pipeline of the shell in src/src/lib.rs:  *)
(* the quoting/escaping tokenizer (tokenize, push_next_arg), the redirect  *)
(* splitter (split_tokens), the read-execute-redirect loop (repl,          *)
(* redirect_and_append) and the commands of src/src/builtin.rs.            *)
(*                                                                         *)
(* A line is a sequence of one-character strings.  Indices named idx,      *)
(* next_start_idx and prev_end_quote_idx are the 0-based byte offsets the  *)
(* Rust code uses; character idx of a sequence s is s[idx + 1].            *)
(*                                                                         *)
(* Paths, names and buffers are sequences of strings as well; a message    *)
(* the code formats is one string per literal part.  The host is the       *)
(* search path, HOME, the working directory, the directories that exist    *)
(* with their listings and the files with their content.  The terminal     *)
(* (stdout and stderr of the process) is taken to accept every write.      *)
(***************************************************************************)
EXTENDS Integers, Sequences, FiniteSets, TLC

\* ------------------------------------------------------------------------
\* Bounds of the model
\* ------------------------------------------------------------------------

\* Longest input line drawn in Init.
MaxLen == 5

\* Longest token sequence handed to split_tokens in InitSplit.
MaxTokens == 4

\* Longest token sequence split, joined and tokenized again in
\* InitRoundTrip.
MaxRoundTrip == 3

\* Most directories on the search path, and most entries listed in one
\* directory, in InitResolve.
MaxPathDirs == 2
MaxEntries == 2

\* Most lines the reader yields in one run of the loop before end of input.
MaxReplLines == 2

\* ------------------------------------------------------------------------
\* Characters
\* ------------------------------------------------------------------------

DQ == "\""
SQ == "'"
BS == "\\"
NL == "\n"
SP == " "
DOLLAR == "$"

\* The characters lines are drawn from: an ordinary character, the two
\* whitespace characters, both quotes, the backslash and the dollar sign.
Alphabet == {"a", SP, NL, DQ, SQ, BS, DOLLAR}

\* IsWhitespace with the space character forgotten.
IsWhitespace_OnlyNewline(ch) == ch = NL

\* char::is_whitespace, restricted to Alphabet.
IsWhitespace(ch) == ch \in {SP, NL}

\* The characters whose escape is honoured inside double quotes.
DoubleQuoteEscapable == {BS, DOLLAR, NL, DQ}

\* Option<T>: None is the empty set, Some(x) the singleton {x}.
None == {}
Some(x) == {x}

\* ------------------------------------------------------------------------
\* Pure helpers
\* ------------------------------------------------------------------------

RECURSIVE TrimStart(_)
TrimStart(s) ==
    IF s # <<>> /\ IsWhitespace(Head(s)) THEN TrimStart(Tail(s)) ELSE s

RECURSIVE TrimEnd(_)
TrimEnd(s) ==
    IF s # <<>> /\ IsWhitespace(s[Len(s)])
    THEN TrimEnd(SubSeq(s, 1, Len(s) - 1))
    ELSE s

\* str::trim: leading and trailing whitespace removed.
Trim(s) == TrimEnd(TrimStart(s))

\* Arm with the double-quote arm's `!in_single_quotes` guard left out.
Arm_QuotesNest(ch, sq, dq, esc) ==
    IF ch = DQ /\ ~esc THEN "double_quote"
    ELSE IF ch = SQ /\ ~dq /\ ~esc THEN "single_quote"
    ELSE IF IsWhitespace(ch) /\ ~esc THEN "whitespace"
    ELSE IF ch = BS /\ ~esc /\ ~sq THEN "backslash"
    ELSE IF esc /\ dq THEN "escaped_in_double"
    ELSE "normal"

\* Arm with the backslash arm's `!in_single_quotes` guard left out.
Arm_NoSingleQuoteGuard(ch, sq, dq, esc) ==
    IF ch = DQ /\ ~sq /\ ~esc THEN "double_quote"
    ELSE IF ch = SQ /\ ~dq /\ ~esc THEN "single_quote"
    ELSE IF IsWhitespace(ch) /\ ~esc THEN "whitespace"
    ELSE IF ch = BS /\ ~esc THEN "backslash"
    ELSE IF esc /\ dq THEN "escaped_in_double"
    ELSE "normal"

\* The match arm of the scan loop taken for character ch, in the order the
\* arms are written.
Arm(ch, sq, dq, esc) ==
    IF ch = DQ /\ ~sq /\ ~esc THEN "double_quote"
    ELSE IF ch = SQ /\ ~dq /\ ~esc THEN "single_quote"
    ELSE IF IsWhitespace(ch) /\ ~esc THEN "whitespace"
    ELSE IF ch = BS /\ ~esc /\ ~sq THEN "backslash"
    ELSE IF esc /\ dq THEN "escaped_in_double"
    ELSE "normal"

\* EscapedInDoublePush with `$` missing from the escapable characters.
EscapedInDoublePush_NoDollar(ch) ==
    IF ch \in {BS, NL, DQ} THEN <<ch>> ELSE <<BS, ch>>

\* What an escaped character inside double quotes appends to `next`.
EscapedInDoublePush(ch) ==
    IF ch \in DoubleQuoteEscapable THEN <<ch>> ELSE <<BS, ch>>

\* QuotesUnfinished with the single-quote flag forgotten.
QuotesUnfinished_DoubleOnly(sq, dq) == dq

\* The check after the scan loop: if in_single_quotes || in_double_quotes.
QuotesUnfinished(sq, dq) == sq \/ dq

\* push_next_arg without the early return on an empty next_arg.
push_next_arg_PushEmpty(args, next_arg, next_arg_start_idx, peq) ==
    IF peq # None /\ peq = Some(next_arg_start_idx - 1)
    THEN IF Len(args) = 0
         THEN [args |-> args, next_arg |-> next_arg, panicked |-> TRUE]
         ELSE [args |-> [args EXCEPT ![Len(args)] = @ \o next_arg],
               next_arg |-> <<>>, panicked |-> FALSE]
    ELSE [args |-> Append(args, next_arg),
          next_arg |-> <<>>, panicked |-> FALSE]

\* push_next_arg: the new args and next_arg, and whether the call panicked
\* (args[len - 1] on an empty args).  The subtraction
\* next_arg_start_idx - 1 is never reached with next_arg_start_idx = 0:
\* prev_end_quote_idx is Some only after a quote closed, and every later
\* value of next_arg_start_idx is larger than that index.
push_next_arg(args, next_arg, next_arg_start_idx, peq) ==
    IF next_arg = <<>>
    THEN [args |-> args, next_arg |-> next_arg, panicked |-> FALSE]
    ELSE IF peq # None /\ peq = Some(next_arg_start_idx - 1)
         THEN IF Len(args) = 0
              THEN [args |-> args, next_arg |-> next_arg, panicked |-> TRUE]
              ELSE [args |-> [args EXCEPT ![Len(args)] = @ \o next_arg],
                    next_arg |-> <<>>, panicked |-> FALSE]
         ELSE [args |-> Append(args, next_arg),
               next_arg |-> <<>>, panicked |-> FALSE]

\* ------------------------------------------------------------------------
\* State
\* ------------------------------------------------------------------------

VARIABLES
    pc,                  \* where the run stands
    line,                \* the argument of tokenize
    input,               \* line after trim()
    idx,                 \* offset of the next character of input to scan
    tokens,              \* tokenize's tokens / split_tokens' argument
    next,                \* the fragment being accumulated
    next_start_idx,
    in_single_quotes,
    in_double_quotes,
    prev_end_quote_idx,
    escaped,
    result,              \* what tokenize returned
    hist,                \* history: per scanned character, the arm taken
                         \* and the flags before it was scanned
    nextSrc,             \* history: the offset in input of each char of next
    tokSrc,              \* history: the same for each char of each token
    tidx,                \* split_tokens: number of tokens consumed
    split,               \* split_tokens: the Split being built
    redirect,            \* split_tokens: the pending Option<Redirect>
    split_result,        \* what split_tokens returned
    path_env,            \* host: the PATH variable, None when unset
    home_env,            \* host: the HOME variable, None when unset
    cwd,                 \* host: the working directory of the process
    files,               \* host: the content of every existing file
    dirs,                \* host: per directory, whether read_dir succeeds
                         \* and the entries it yields, in listing order
    lookup,              \* find_executable_in_path: its argument and result
    out_buf,             \* repl: the buffer behind Output.out
    err_buf,             \* repl: the buffer behind Output.err
    ended,               \* repl: how the process ended, "no" while it runs
    exit_code,           \* repl: the argument of process::exit, if called
    remaining,           \* repl: how many more lines the reader may yield
    term_out,            \* history: what the current line wrote to stdout
    term_err,            \* history: what the current line wrote to stderr
    fs_log,              \* history: the file operations of the current line
    spawned,             \* history: the programs the current line started
    cwd0,                \* history: cwd when the current line was read
    files0               \* history: files when the current line was read

tokVars == <<line, input, idx, next, next_start_idx, in_single_quotes,
             in_double_quotes, prev_end_quote_idx, escaped, result,
             hist, nextSrc, tokSrc>>

splitVars == <<tidx, split, redirect, split_result>>

hostVars == <<path_env, home_env, cwd, files, dirs>>

replVars == <<lookup, out_buf, err_buf, ended, exit_code, remaining,
              term_out, term_err, fs_log, spawned, cwd0, files0>>

vars == <<pc, tokens, tokVars, splitVars, hostVars, replVars>>

\* ------------------------------------------------------------------------
\* Inputs
\* ------------------------------------------------------------------------

\* The least element of a non-empty set of integers.
Least(S) == CHOOSE i \in S : \A j \in S : i <= j

RECURSIVE SeqsUpTo(_, _)
SeqsUpTo(S, n) ==
    IF n = 0 THEN {<<>>}
    ELSE LET shorter == SeqsUpTo(S, n - 1)
         IN  shorter \cup {Append(s, x) : s \in shorter, x \in S}

Lines == SeqsUpTo(Alphabet, MaxLen)

NoResult == [kind |-> "none"]

\* Split::new
NewSplit == [cmd_args |-> <<>>, outs |-> <<>>, append_outs |-> <<>>,
             errs |-> <<>>, append_errs |-> <<>>]

SplitIdle ==
    /\ tidx = 0
    /\ split = NewSplit
    /\ redirect = None
    /\ split_result = NoResult

\* No host and no loop: a function is run on its own.
HostIdle ==
    /\ path_env = None
    /\ home_env = None
    /\ cwd = <<>>
    /\ files = <<>>
    /\ dirs = <<>>

ReplIdle ==
    /\ lookup = NoResult
    /\ out_buf = <<>>
    /\ err_buf = <<>>
    /\ ended = "no"
    /\ exit_code = None
    /\ remaining = 0
    /\ term_out = <<>>
    /\ term_err = <<>>
    /\ fs_log = <<>>
    /\ spawned = <<>>
    /\ cwd0 = <<>>
    /\ files0 = <<>>

\* The locals of tokenize as it declares them.
TokenizeLocals ==
    /\ tokens = <<>>
    /\ next = <<>>
    /\ next_start_idx = 0
    /\ in_single_quotes = FALSE
    /\ in_double_quotes = FALSE
    /\ prev_end_quote_idx = None
    /\ escaped = FALSE
    /\ idx = 0
    /\ result = NoResult
    /\ hist = <<>>
    /\ nextSrc = <<>>
    /\ tokSrc = <<>>

\* tokenize is about to be called on some line.
Init ==
    /\ pc = "start"
    /\ line \in Lines
    /\ input = <<>>
    /\ TokenizeLocals
    /\ SplitIdle
    /\ HostIdle
    /\ ReplIdle

\* ------------------------------------------------------------------------
\* tokenize
\* ------------------------------------------------------------------------

\* let input = input.trim();
TokenizeStart ==
    /\ pc = "start"
    /\ input' = Trim(line)
    /\ pc' = "scan"
    /\ UNCHANGED <<line, idx, tokens, next, next_start_idx, in_single_quotes,
                   in_double_quotes, prev_end_quote_idx, escaped, result,
                   hist, nextSrc, tokSrc, splitVars, hostVars, replVars>>

Scanning == pc = "scan" /\ idx < Len(input)

ch == input[idx + 1]

CurrentArm == Arm(ch, in_single_quotes, in_double_quotes, escaped)

Record(arm) ==
    hist' = Append(hist, [arm |-> arm, ch |-> ch, sq |-> in_single_quotes,
                          dq |-> in_double_quotes, esc |-> escaped])

\* The flush at a closing quote or at whitespace outside quotes.
Flush(closesQuote) ==
    LET r == push_next_arg(tokens, next, next_start_idx, prev_end_quote_idx)
        s == push_next_arg(tokSrc, nextSrc, next_start_idx, prev_end_quote_idx)
    IN  IF r.panicked
        THEN /\ pc' = "panic"
             /\ UNCHANGED <<tokens, next, tokSrc, nextSrc, idx,
                            next_start_idx, prev_end_quote_idx>>
        ELSE /\ pc' = pc
             /\ tokens' = r.args
             /\ next' = r.next_arg
             /\ tokSrc' = s.args
             /\ nextSrc' = s.next_arg
             /\ prev_end_quote_idx' =
                    IF closesQuote THEN Some(idx) ELSE prev_end_quote_idx
             /\ next_start_idx' = idx + 1
             /\ idx' = idx + 1

\* '"' if !in_single_quotes && !escaped
ScanDoubleQuote ==
    /\ Scanning
    /\ CurrentArm = "double_quote"
    /\ Record("double_quote")
    /\ in_double_quotes' = ~in_double_quotes
    /\ IF in_double_quotes'
       THEN /\ next_start_idx' = idx
            /\ idx' = idx + 1
            /\ UNCHANGED <<pc, tokens, next, tokSrc, nextSrc,
                           prev_end_quote_idx>>
       ELSE Flush(TRUE)
    /\ UNCHANGED <<line, input, in_single_quotes, escaped, result, splitVars,
                   hostVars, replVars>>

\* '\'' if !in_double_quotes && !escaped
ScanSingleQuote ==
    /\ Scanning
    /\ CurrentArm = "single_quote"
    /\ Record("single_quote")
    /\ in_single_quotes' = ~in_single_quotes
    /\ IF in_single_quotes'
       THEN /\ next_start_idx' = idx
            /\ idx' = idx + 1
            /\ UNCHANGED <<pc, tokens, next, tokSrc, nextSrc,
                           prev_end_quote_idx>>
       ELSE Flush(TRUE)
    /\ UNCHANGED <<line, input, in_double_quotes, escaped, result, splitVars,
                   hostVars, replVars>>

\* _ if (ch.is_whitespace() && !escaped)
ScanWhitespace ==
    /\ Scanning
    /\ CurrentArm = "whitespace"
    /\ Record("whitespace")
    /\ IF in_single_quotes \/ in_double_quotes
       THEN /\ next' = Append(next, ch)
            /\ nextSrc' = Append(nextSrc, idx)
            /\ idx' = idx + 1
            /\ UNCHANGED <<pc, tokens, tokSrc, next_start_idx,
                           prev_end_quote_idx>>
       ELSE Flush(FALSE)
    /\ UNCHANGED <<line, input, in_single_quotes, in_double_quotes, escaped,
                   result, splitVars, hostVars, replVars>>

\* '\\' if !escaped && !in_single_quotes => escaped = true
ScanBackslash ==
    /\ Scanning
    /\ CurrentArm = "backslash"
    /\ Record("backslash")
    /\ escaped' = TRUE
    /\ idx' = idx + 1
    /\ UNCHANGED <<pc, line, input, tokens, next, next_start_idx,
                   in_single_quotes, in_double_quotes, prev_end_quote_idx,
                   result, nextSrc, tokSrc, splitVars, hostVars, replVars>>

\* _ if escaped && in_double_quotes
ScanEscapedInDouble ==
    /\ Scanning
    /\ CurrentArm = "escaped_in_double"
    /\ Record("escaped_in_double")
    /\ escaped' = FALSE
    /\ next' = next \o EscapedInDoublePush(ch)
    /\ nextSrc' = nextSrc \o
           (IF Len(EscapedInDoublePush(ch)) = 2 THEN <<idx - 1, idx>>
                                                ELSE <<idx>>)
    /\ idx' = idx + 1
    /\ UNCHANGED <<pc, line, input, tokens, next_start_idx, in_single_quotes,
                   in_double_quotes, prev_end_quote_idx, result, tokSrc,
                   splitVars, hostVars, replVars>>

\* _ => { if escaped { escaped = false } next.push(ch); }
ScanNormal ==
    /\ Scanning
    /\ CurrentArm = "normal"
    /\ Record("normal")
    /\ escaped' = FALSE
    /\ next' = Append(next, ch)
    /\ nextSrc' = Append(nextSrc, idx)
    /\ idx' = idx + 1
    /\ UNCHANGED <<pc, line, input, tokens, next_start_idx, in_single_quotes,
                   in_double_quotes, prev_end_quote_idx, result, tokSrc,
                   splitVars, hostVars, replVars>>

\* After the loop: the unfinished-quote check, the last push_next_arg and
\* the return.
TokenizeFinish ==
    /\ pc = "scan"
    /\ idx = Len(input)
    /\ IF QuotesUnfinished(in_single_quotes, in_double_quotes)
       THEN /\ pc' = "err"
            /\ result' = [kind |-> "Err", msg |-> "quotes unfinished"]
            /\ UNCHANGED <<tokens, next, tokSrc, nextSrc>>
       ELSE LET r == push_next_arg(tokens, next, next_start_idx,
                                   prev_end_quote_idx)
                s == push_next_arg(tokSrc, nextSrc, next_start_idx,
                                   prev_end_quote_idx)
            IN  IF r.panicked
                THEN /\ pc' = "panic"
                     /\ UNCHANGED <<tokens, next, tokSrc, nextSrc, result>>
                ELSE /\ pc' = "ok"
                     /\ tokens' = r.args
                     /\ next' = r.next_arg
                     /\ tokSrc' = s.args
                     /\ nextSrc' = s.next_arg
                     /\ result' = [kind |-> "Ok", tokens |-> r.args]
    /\ UNCHANGED <<line, input, idx, next_start_idx, in_single_quotes,
                   in_double_quotes, prev_end_quote_idx, escaped, hist,
                   splitVars, hostVars, replVars>>

Next ==
    \/ TokenizeStart
    \/ ScanDoubleQuote
    \/ ScanSingleQuote
    \/ ScanWhitespace
    \/ ScanBackslash
    \/ ScanEscapedInDouble
    \/ ScanNormal
    \/ TokenizeFinish

Spec == Init /\ [][Next]_vars

\* ------------------------------------------------------------------------
\* split_tokens
\* ------------------------------------------------------------------------

GT == ">"

\* The six operator spellings, as tokens.
OperatorTokens ==
    {<<GT>>, <<"1", GT>>, <<GT, GT>>, <<"1", GT, GT>>,
     <<"2", GT>>, <<"2", GT, GT>>}

\* RedirectOf taking every `<digit>>` word for a stderr redirect.
RedirectOf_AnyDigit(token) ==
    IF token \in {<<"1", GT>>, <<GT>>} THEN "Out"
    ELSE IF token \in {<<"1", GT, GT>>, <<GT, GT>>} THEN "AppendOut"
    ELSE IF token \in {<<"2", GT>>, <<"3", GT>>} THEN "Err"
    ELSE IF token = <<"2", GT, GT>> THEN "AppendErr"
    ELSE "NotAnOperator"

\* The second match of the loop body: the Redirect an operator token sets.
RedirectOf(token) ==
    IF token \in {<<"1", GT>>, <<GT>>} THEN "Out"
    ELSE IF token \in {<<"1", GT, GT>>, <<GT, GT>>} THEN "AppendOut"
    ELSE IF token = <<"2", GT>> THEN "Err"
    ELSE IF token = <<"2", GT, GT>> THEN "AppendErr"
    ELSE "NotAnOperator"

\* RefusedWhilePending with the spelling `2>>` forgotten.
RefusedWhilePending_No2Append(token) ==
    token \in OperatorTokens \ {<<"2", GT, GT>>}

\* The first match of the loop body: the spellings that are refused while a
\* redirect is pending.
RefusedWhilePending(token) == token \in OperatorTokens

\* FieldOf with the two stderr lists swapped.
FieldOf_ErrSwapped(r) ==
    IF r = "Out" THEN "outs"
    ELSE IF r = "AppendOut" THEN "append_outs"
    ELSE IF r = "Err" THEN "append_errs"
    ELSE "errs"

\* The field of Split a target of redirect r is pushed to.
FieldOf(r) ==
    IF r = "Out" THEN "outs"
    ELSE IF r = "AppendOut" THEN "append_outs"
    ELSE IF r = "Err" THEN "errs"
    ELSE "append_errs"

\* The tokens split_tokens is tried on: every operator spelling, two
\* ordinary words and two words that only look like operators.
SplitTokens == OperatorTokens \cup {<<"a">>, <<"b">>, <<"3", GT>>, <<"1">>}

\* split_tokens is about to be called on some token sequence.
InitSplit ==
    /\ pc = "split"
    /\ tokens \in SeqsUpTo(SplitTokens, MaxTokens)
    /\ line = <<>>
    /\ input = <<>>
    /\ next = <<>>
    /\ next_start_idx = 0
    /\ in_single_quotes = FALSE
    /\ in_double_quotes = FALSE
    /\ prev_end_quote_idx = None
    /\ escaped = FALSE
    /\ idx = 0
    /\ result = NoResult
    /\ hist = <<>>
    /\ nextSrc = <<>>
    /\ tokSrc = <<>>
    /\ SplitIdle
    /\ HostIdle
    /\ ReplIdle

SplitLooping == pc = "split" /\ tidx < Len(tokens)

token == tokens[tidx + 1]

\* An operator spelling while a redirect is pending: return Err.
SplitParseError ==
    /\ SplitLooping
    /\ RefusedWhilePending(token)
    /\ redirect # None
    /\ pc' = "split_err"
    /\ split_result' = [kind |-> "Err", msg |-> "parse error near ",
                        token |-> token]
    /\ UNCHANGED <<tokens, tokVars, tidx, split, redirect, hostVars, replVars>>

\* An operator spelling: it becomes the pending redirect.
SplitOperator ==
    /\ SplitLooping
    /\ ~(RefusedWhilePending(token) /\ redirect # None)
    /\ RedirectOf(token) # "NotAnOperator"
    /\ redirect' = Some(RedirectOf(token))
    /\ tidx' = tidx + 1
    /\ UNCHANGED <<pc, tokens, tokVars, split, split_result, hostVars,
                   replVars>>

\* Any other token with a redirect pending: it is that redirect's target.
SplitTarget ==
    /\ SplitLooping
    /\ ~(RefusedWhilePending(token) /\ redirect # None)
    /\ RedirectOf(token) = "NotAnOperator"
    /\ redirect # None
    /\ \E r \in redirect :
           split' = [split EXCEPT ![FieldOf(r)] = Append(@, token)]
    /\ redirect' = None
    /\ tidx' = tidx + 1
    /\ UNCHANGED <<pc, tokens, tokVars, split_result, hostVars, replVars>>

\* Any other token with no redirect pending: a command word or argument.
SplitCmdArg ==
    /\ SplitLooping
    /\ ~(RefusedWhilePending(token) /\ redirect # None)
    /\ RedirectOf(token) = "NotAnOperator"
    /\ redirect = None
    /\ split' = [split EXCEPT !.cmd_args = Append(@, token)]
    /\ redirect' = None
    /\ tidx' = tidx + 1
    /\ UNCHANGED <<pc, tokens, tokVars, split_result, hostVars, replVars>>

\* Ok(split)
SplitFinish ==
    /\ pc = "split"
    /\ tidx = Len(tokens)
    /\ pc' = "split_ok"
    /\ split_result' = [kind |-> "Ok", split |-> split]
    /\ UNCHANGED <<tokens, tokVars, tidx, split, redirect, hostVars, replVars>>

NextSplit ==
    \/ SplitParseError
    \/ SplitOperator
    \/ SplitTarget
    \/ SplitCmdArg
    \/ SplitFinish

SpecSplit == InitSplit /\ [][NextSplit]_vars

\* ------------------------------------------------------------------------
\* split_tokens, join and tokenize in a row
\* ------------------------------------------------------------------------

\* [&str]::join(sep): the elements of ss with sep between them.
RECURSIVE JoinWith(_, _)
JoinWith(ss, sep) ==
    IF ss = <<>> THEN <<>>
    ELSE IF Len(ss) = 1 THEN ss[1]
    ELSE ss[1] \o sep \o JoinWith(Tail(ss), sep)

\* tokenize is called on line l: its argument and its locals.
TokenizeCalled(l) ==
    /\ pc' = "start"
    /\ line' = l
    /\ input' = <<>>
    /\ tokens' = <<>>
    /\ next' = <<>>
    /\ next_start_idx' = 0
    /\ in_single_quotes' = FALSE
    /\ in_double_quotes' = FALSE
    /\ prev_end_quote_idx' = None
    /\ escaped' = FALSE
    /\ idx' = 0
    /\ result' = NoResult
    /\ hist' = <<>>
    /\ nextSrc' = <<>>
    /\ tokSrc' = <<>>

\* The tokens the round trip is tried on: plain words, operator spellings,
\* the empty token and tokens holding whitespace, a quote or a backslash
\* (tokenize produces such tokens from quoted or escaped text).
RoundTripTokens ==
    {<<"a">>, <<"a", DOLLAR>>, <<GT>>, <<"2", GT>>, <<>>,
     <<"a", SP, "a">>, <<NL>>, <<DQ>>, <<SQ, "a">>, <<BS, "a">>}

InitRoundTrip ==
    /\ pc = "split"
    /\ tokens \in SeqsUpTo(RoundTripTokens, MaxRoundTrip)
    /\ line = <<>>
    /\ input = <<>>
    /\ next = <<>>
    /\ next_start_idx = 0
    /\ in_single_quotes = FALSE
    /\ in_double_quotes = FALSE
    /\ prev_end_quote_idx = None
    /\ escaped = FALSE
    /\ idx = 0
    /\ result = NoResult
    /\ hist = <<>>
    /\ nextSrc = <<>>
    /\ tokSrc = <<>>
    /\ SplitIdle
    /\ HostIdle
    /\ ReplIdle

\* The cmd_args of a successful split are joined with single spaces and the
\* joined text is handed to tokenize.
RoundTripJoin ==
    /\ pc = "split_ok"
    /\ TokenizeCalled(JoinWith(split_result.split.cmd_args, <<SP>>))
    /\ UNCHANGED <<splitVars, hostVars, replVars>>

NextRoundTrip ==
    \/ SplitParseError
    \/ SplitOperator
    \/ SplitTarget
    \/ SplitCmdArg
    \/ SplitFinish
    \/ RoundTripJoin
    \/ TokenizeStart
    \/ ScanDoubleQuote
    \/ ScanSingleQuote
    \/ ScanWhitespace
    \/ ScanBackslash
    \/ ScanEscapedInDouble
    \/ ScanNormal
    \/ TokenizeFinish

SpecRoundTrip == InitRoundTrip /\ [][NextRoundTrip]_vars

\* ------------------------------------------------------------------------
\* find_executable_in_path
\* ------------------------------------------------------------------------

\* One item of a directory listing: an entry that could not be read, or an
\* entry with its file name, whether its path is a regular file, and whether
\* the operating system would execute it.
ErrEntry == [kind |-> "Err"]
OkEntry(n, f, x) == [kind |-> "Ok", name |-> n, is_file |-> f, exec |-> x]

\* A directory read_dir fails on.
Unreadable == [readable |-> FALSE, entries |-> <<>>]
Listing(es) == [readable |-> TRUE, entries |-> es]

\* fs::read_dir(p): the listing, or an error for a directory that does not
\* exist or cannot be read.
ReadDir(p) ==
    IF p \in DOMAIN dirs /\ dirs[p].readable THEN Some(dirs[p].entries)
    ELSE None

\* The is_file test with every entry taken for a regular file.
IsRegularFile_Any(e) == TRUE

\* path.is_file()
IsRegularFile(e) == e.is_file

\* p.join(file name): the path of entry n of directory p. Paths and names
\* are sequences of characters, as tokens are.
PathOf(p, n) ==
    IF p = <<>> THEN n
    ELSE IF p[Len(p)] = "/" THEN p \o n
    ELSE p \o <<"/">> \o n

\* The inner loop: the first entry of the listing of p that is a regular
\* file named name.
RECURSIVE FindInEntries(_, _, _)
FindInEntries(p, entries, name) ==
    IF entries = <<>> THEN None
    ELSE LET entry == Head(entries) IN
         IF entry.kind = "Err" THEN FindInEntries(p, Tail(entries), name)
         ELSE IF ~IsRegularFile(entry)
              THEN FindInEntries(p, Tail(entries), name)
         ELSE IF entry.name = name THEN Some(PathOf(p, entry.name))
         ELSE FindInEntries(p, Tail(entries), name)

\* The outer loop over the directories split from PATH.
RECURSIVE FindInSplits(_, _)
FindInSplits(splits, name) ==
    IF splits = <<>> THEN None
    ELSE LET p == Head(splits)
             entries == ReadDir(p)
         IN  IF entries = None THEN FindInSplits(Tail(splits), name)
             ELSE LET found ==
                          FindInEntries(p, CHOOSE es \in entries : TRUE, name)
                  IN  IF found # None THEN found
                      ELSE FindInSplits(Tail(splits), name)

find_executable_in_path(name) ==
    IF path_env = None THEN None
    ELSE FindInSplits(CHOOSE splits \in path_env : TRUE, name)

\* Directory names, command names and listings the resolver is tried on.
\* /u names no directory of dirs.
DirNames == {<<"/", "a">>, <<"/", "b">>}
PathNames == DirNames \cup {<<"/", "u">>}
CommandNames == {<<"p">>, <<"q">>}
ResolveEntries ==
    {ErrEntry, OkEntry(<<"p">>, TRUE, TRUE), OkEntry(<<"p">>, FALSE, FALSE),
     OkEntry(<<"q">>, TRUE, TRUE)}
ResolveDirs == {Unreadable} \cup
               {Listing(es) : es \in SeqsUpTo(ResolveEntries, MaxEntries)}

InitResolve ==
    /\ pc = "resolve"
    /\ path_env \in {None} \cup
                    {Some(ps) : ps \in SeqsUpTo(PathNames, MaxPathDirs)}
    /\ dirs \in [DirNames -> ResolveDirs]
    /\ home_env = None
    /\ cwd = <<>>
    /\ files = <<>>
    /\ tokens = <<>>
    /\ line = <<>>
    /\ input = <<>>
    /\ next = <<>>
    /\ next_start_idx = 0
    /\ in_single_quotes = FALSE
    /\ in_double_quotes = FALSE
    /\ prev_end_quote_idx = None
    /\ escaped = FALSE
    /\ idx = 0
    /\ result = NoResult
    /\ hist = <<>>
    /\ nextSrc = <<>>
    /\ tokSrc = <<>>
    /\ SplitIdle
    /\ ReplIdle

\* One call of find_executable_in_path.
Resolve ==
    /\ pc = "resolve"
    /\ \E name \in CommandNames :
           lookup' = [kind |-> "lookup", name |-> name,
                      found |-> find_executable_in_path(name)]
    /\ pc' = "resolved"
    /\ UNCHANGED <<tokens, tokVars, splitVars, hostVars, out_buf, err_buf,
                   ended, exit_code, remaining, term_out, term_err, fs_log,
                   spawned, cwd0, files0>>

NextResolve == Resolve

SpecResolve == InitResolve /\ [][NextResolve]_vars

\* ------------------------------------------------------------------------
\* The builtins and the host calls they make
\* ------------------------------------------------------------------------

\* i32::MAX, the largest value parse::<i32> accepts.
I32Max == 2147483647
I32Min == -I32Max - 1

Digits == {"0", "1", "2", "3", "4", "5", "6", "7", "8", "9"}
DigitValue(c) ==
    CASE c = "0" -> 0 [] c = "1" -> 1 [] c = "2" -> 2 [] c = "3" -> 3
      [] c = "4" -> 4 [] c = "5" -> 5 [] c = "6" -> 6 [] c = "7" -> 7
      [] c = "8" -> 8 [] c = "9" -> 9

\* The digit loop of i32::from_str: acc * 10 + d (or - d for a negative
\* number) with checked arithmetic; None for a non-digit or an overflow.
RECURSIVE ParseDigits(_, _, _)
ParseDigits(ds, acc, positive) ==
    IF ds = <<>> THEN Some(acc)
    ELSE IF Head(ds) \notin Digits THEN None
    ELSE LET d == DigitValue(Head(ds)) IN
         IF positive
         THEN IF acc > I32Max \div 10 \/ acc * 10 > I32Max - d THEN None
              ELSE ParseDigits(Tail(ds), acc * 10 + d, positive)
         ELSE IF acc < -(I32Max \div 10) \/ acc * 10 < I32Min + d THEN None
              ELSE ParseDigits(Tail(ds), acc * 10 - d, positive)

\* ParseI32 with every digit string accepted, whatever its size: the value
\* is cut to the range.
ParseI32_Saturating(t) ==
    IF t = <<>> \/ \E i \in 1 .. Len(t) : t[i] \notin Digits THEN None
    ELSE IF ParseDigits(t, 0, TRUE) = None THEN Some(I32Max)
    ELSE ParseDigits(t, 0, TRUE)

\* arg.parse::<i32>(): an optional sign, then at least one digit.
ParseI32(t) ==
    IF t = <<>> THEN None
    ELSE IF t[1] \in {"+", "-"}
         THEN IF Len(t) = 1 THEN None
              ELSE ParseDigits(Tail(t), 0, t[1] = "+")
    ELSE ParseDigits(t, 0, TRUE)

\* The exit code: the first argument parsed, 0 when it is missing or does
\* not parse.
ExitCodeOf(args) ==
    IF args = <<>> THEN 0
    ELSE IF ParseI32(args[1]) = None THEN 0
    ELSE CHOOSE c \in ParseI32(args[1]) : TRUE

\* The names of the Command enum that strum parses.
EXIT == <<"e", "x", "i", "t">>
ECHO == <<"e", "c", "h", "o">>
TYPE == <<"t", "y", "p", "e">>
PWD == <<"p", "w", "d">>
CD == <<"c", "d">>
Builtins == {EXIT, ECHO, TYPE, PWD, CD}

\* Command::parse
Parse(word) ==
    IF word = EXIT THEN [kind |-> "Exit"]
    ELSE IF word = ECHO THEN [kind |-> "Echo"]
    ELSE IF word = TYPE THEN [kind |-> "Type"]
    ELSE IF word = PWD THEN [kind |-> "Pwd"]
    ELSE IF word = CD THEN [kind |-> "Cd"]
    ELSE [kind |-> "Executable", name |-> word]

home_dir == IF home_env = None THEN <<>> ELSE CHOOSE h \in home_env : TRUE

\* The positions of path holding a slash.
Slashes(path) == {i \in 1 .. Len(path) : path[i] = "/"}

\* replace_with_home_dir with `~` expanded at the start of any argument.
replace_with_home_dir_AnyTilde(path) ==
    IF path # <<>> /\ path[1] = "~" THEN home_dir \o Tail(path) ELSE path

\* replace_with_home_dir: split_once('/') and the two matches on `~`.
replace_with_home_dir(path) ==
    IF Slashes(path) # {}
    THEN LET i == Least(Slashes(path))
             a == SubSeq(path, 1, i - 1)
             b == SubSeq(path, i + 1, Len(path))
         IN  IF a = <<"~">> THEN home_dir \o <<"/">> \o b ELSE path
    ELSE IF path = <<"~">> THEN home_dir ELSE path

\* What the operating system makes of a path given to it: relative paths
\* start at the working directory, the empty path names nothing, one
\* trailing slash is dropped.
Absolute(path) ==
    LET full == IF path = <<>> THEN <<>>
                ELSE IF path[1] = "/" THEN path
                ELSE PathOf(cwd, path)
    IN  IF Len(full) > 1 /\ full[Len(full)] = "/"
        THEN SubSeq(full, 1, Len(full) - 1) ELSE full

\* The directory a path lies in.
Parent(a) ==
    LET i == CHOOSE j \in Slashes(a) : \A k \in Slashes(a) : k <= j
    IN  IF i = 1 THEN <<"/">> ELSE SubSeq(a, 1, i - 1)

\* env::set_current_dir(dir) succeeds when dir names a directory.
CanEnter(dir) == Absolute(dir) \in DOMAIN dirs

\* What type_cmd reports for one argument.
TypeOutput(arg) ==
    IF Parse(arg).kind # "Executable" THEN arg \o <<" is a shell builtin">>
    ELSE LET found == find_executable_in_path(arg) IN
         IF found = None THEN arg \o <<": not found">>
         ELSE arg \o <<" is ">> \o (CHOOSE path \in found : TRUE)

\* process::Command::new(name) with a name that holds no slash: the
\* operating system walks PATH itself and starts the first file of that
\* name it is allowed to execute; None when there is none and the spawn
\* fails.
RECURSIVE ExecSearch(_, _)
ExecSearch(splits, name) ==
    IF splits = <<>> THEN None
    ELSE LET p == Head(splits) IN
         IF /\ p \in DOMAIN dirs
            /\ \E i \in 1 .. Len(dirs[p].entries) :
                   /\ dirs[p].entries[i].kind = "Ok"
                   /\ dirs[p].entries[i].name = name
                   /\ dirs[p].entries[i].is_file
                   /\ dirs[p].entries[i].exec
         THEN Some(PathOf(p, name))
         ELSE ExecSearch(Tail(splits), name)

\* The program process::Command::new(name).output() starts.
Spawn(name) ==
    IF path_env = None \/ Slashes(name) # {} THEN None
    ELSE ExecSearch(CHOOSE splits \in path_env : TRUE, name)

\* What the program at path writes before it terminates.
ProgramStdout(path) == <<"stdout of ">> \o path \o <<NL>>
ProgramStderr(path) == <<"stderr of ">> \o path \o <<NL>>

\* Files that can be opened but refuse every write, as a full device does.
FullFiles == {<<"/", "w">>}

\* fs::File::create(r) and OpenOptions::open(a) succeed when the directory
\* of the path exists and the path itself is not a directory.
CanOpen(r) ==
    /\ Absolute(r) # <<>>
    /\ Absolute(r) \notin DOMAIN dirs
    /\ Parent(Absolute(r)) \in DOMAIN dirs

\* file.write_all(buf) succeeds; an empty buf needs no write at all.
CanWrite(r, buf) == buf = <<>> \/ Absolute(r) \notin FullFiles

\* fs with the file at path a holding content.
WithFile(fs, a, content) ==
    [b \in DOMAIN fs \cup {a} |-> IF b = a THEN content ELSE fs[b]]

\* The content of the file at a, empty when it does not exist yet.
ContentOf(fs, a) == IF a \in DOMAIN fs THEN fs[a] ELSE <<>>

\* redirect_to with the loop left at the first failing target.
RECURSIVE redirect_to_StopAtFailure(_, _, _)
redirect_to_StopAtFailure(redirects, buf, st) ==
    IF redirects = <<>> THEN st
    ELSE LET r == Head(redirects) IN
         IF CanOpen(r) /\ CanWrite(r, buf)
         THEN redirect_to_StopAtFailure(Tail(redirects), buf,
                  [st EXCEPT !.files = WithFile(@, Absolute(r), buf),
                             !.fs_log = Append(@, [op |-> "create",
                                 path |-> r, ok |-> TRUE, data |-> buf])])
         ELSE [st EXCEPT !.term_err = @ \o <<"failed to create file ">>
                                        \o r \o <<": os error", NL>>,
                         !.fs_log = Append(@, [op |-> "create", path |-> r,
                                               ok |-> FALSE, data |-> <<>>])]

\* redirect_to: every target in turn is created or truncated and written
\* with buf; a failure is reported on stderr and the loop goes on. st holds
\* the files, what the terminal received and the log of file operations.
RECURSIVE redirect_to(_, _, _)
redirect_to(redirects, buf, st) ==
    IF redirects = <<>> THEN st
    ELSE LET r == Head(redirects)
             st1 ==
               IF CanOpen(r)
               THEN IF CanWrite(r, buf)
                    THEN [st EXCEPT
                            !.files = WithFile(@, Absolute(r), buf),
                            !.fs_log = Append(@, [op |-> "create",
                                path |-> r, ok |-> TRUE, data |-> buf])]
                    ELSE [st EXCEPT
                            !.files = WithFile(@, Absolute(r), <<>>),
                            !.term_err = @ \o <<"failed to write to file ">>
                                           \o r \o <<": os error", NL>>,
                            !.fs_log = Append(@, [op |-> "create",
                                path |-> r, ok |-> FALSE, data |-> <<>>])]
               ELSE [st EXCEPT
                       !.term_err = @ \o <<"failed to create file ">>
                                      \o r \o <<": os error", NL>>,
                       !.fs_log = Append(@, [op |-> "create", path |-> r,
                                             ok |-> FALSE, data |-> <<>>])]
         IN  redirect_to(Tail(redirects), buf, st1)

\* append_to: every target in turn is opened for appending, created when
\* missing, and buf is written at its end.
RECURSIVE append_to(_, _, _)
append_to(appends, buf, st) ==
    IF appends = <<>> THEN st
    ELSE LET a == Head(appends)
             st1 ==
               IF CanOpen(a)
               THEN IF CanWrite(a, buf)
                    THEN [st EXCEPT
                            !.files = WithFile(@, Absolute(a),
                                          ContentOf(@, Absolute(a)) \o buf),
                            !.fs_log = Append(@, [op |-> "append",
                                path |-> a, ok |-> TRUE, data |-> buf])]
                    ELSE [st EXCEPT
                            !.files = WithFile(@, Absolute(a),
                                          ContentOf(@, Absolute(a))),
                            !.term_err = @ \o <<"failed to append to file ">>
                                           \o a \o <<": os error", NL>>,
                            !.fs_log = Append(@, [op |-> "append",
                                path |-> a, ok |-> FALSE, data |-> <<>>])]
               ELSE [st EXCEPT
                       !.term_err = @ \o <<"failed to open file ">>
                                      \o a \o <<": os error", NL>>,
                       !.fs_log = Append(@, [op |-> "append", path |-> a,
                                             ok |-> FALSE, data |-> <<>>])]
         IN  append_to(Tail(appends), buf, st1)

\* RedirectOutSide with the append targets served before the others.
RedirectOutSide_AppendFirst(sp, buf, st) ==
    LET st1 == IF Len(sp.append_outs) > 0
               THEN append_to(sp.append_outs, buf, st) ELSE st
        st2 == IF Len(sp.outs) > 0 THEN redirect_to(sp.outs, buf, st1)
               ELSE st1
    IN  IF Len(sp.outs) = 0 /\ Len(sp.append_outs) = 0
        THEN [st2 EXCEPT !.term_out = @ \o buf] ELSE st2

\* RedirectOutSide with the terminal written whatever the lists hold.
RedirectOutSide_AlwaysTerminal(sp, buf, st) ==
    LET st1 == IF Len(sp.outs) > 0 THEN redirect_to(sp.outs, buf, st)
               ELSE st
        st2 == IF Len(sp.append_outs) > 0
               THEN append_to(sp.append_outs, buf, st1) ELSE st1
    IN  [st2 EXCEPT !.term_out = @ \o buf]

\* The output half of redirect_and_append.
RedirectOutSide(sp, buf, st) ==
    LET st1 == IF Len(sp.outs) > 0 THEN redirect_to(sp.outs, buf, st)
               ELSE st
        st2 == IF Len(sp.append_outs) > 0
               THEN append_to(sp.append_outs, buf, st1) ELSE st1
    IN  IF Len(sp.outs) = 0 /\ Len(sp.append_outs) = 0
        THEN [st2 EXCEPT !.term_out = @ \o buf] ELSE st2

\* The error half of redirect_and_append.
RedirectErrSide(sp, buf, st) ==
    LET st1 == IF Len(sp.errs) > 0 THEN redirect_to(sp.errs, buf, st)
               ELSE st
        st2 == IF Len(sp.append_errs) > 0
               THEN append_to(sp.append_errs, buf, st1) ELSE st1
    IN  IF Len(sp.errs) = 0 /\ Len(sp.append_errs) = 0
        THEN [st2 EXCEPT !.term_err = @ \o buf] ELSE st2

\* redirect_and_append giving up after a failure on the output side.
redirect_and_append_OutputFirst(sp, obuf, ebuf, st) ==
    LET st1 == RedirectOutSide(sp, obuf, st) IN
    IF st1.term_err # st.term_err THEN st1
    ELSE RedirectErrSide(sp, ebuf, st1)

redirect_and_append(sp, obuf, ebuf, st) ==
    RedirectErrSide(sp, ebuf, RedirectOutSide(sp, obuf, st))

\* ------------------------------------------------------------------------
\* repl
\* ------------------------------------------------------------------------

\* The host the loop runs on. PATH names a directory that does not exist,
\* then /a and /b. /a lists p as a regular file that may not be executed
\* and q as a directory; /b lists p and q as programs and n as a regular
\* file that may not be executed; r is in neither. /d is an empty
\* directory and, when HOME is set, the home directory. The file /g exists;
\* /w can be opened and refuses writes.
ROOT == <<"/">>
DIR_A == <<"/", "a">>
DIR_B == <<"/", "b">>
DIR_D == <<"/", "d">>
ReplPath == <<<<"/", "u">>, DIR_A, DIR_B>>
ReplDirs ==
    [d \in {ROOT, DIR_A, DIR_B, DIR_D} |->
        IF d = DIR_A
        THEN Listing(<<OkEntry(<<"q">>, FALSE, FALSE),
                       OkEntry(<<"p">>, TRUE, FALSE)>>)
        ELSE IF d = DIR_B
        THEN Listing(<<OkEntry(<<"p">>, TRUE, TRUE),
                       OkEntry(<<"n">>, TRUE, FALSE),
                       OkEntry(<<"q">>, TRUE, TRUE)>>)
        ELSE Listing(<<>>)]
ReplFiles ==
    [a \in {<<"/", "g">>} \cup FullFiles |->
        IF a \in FullFiles THEN <<>> ELSE <<"old", NL>>]

\* A line typed as words with one space between them.
Words(ws) == JoinWith(ws, <<SP>>)

\* The lines the reader may yield.
ReplLines ==
    {<<>>,
     <<SQ, "a">>,
     <<DQ, DQ, "a">>,
     Words(<<ECHO, <<"a">>, <<GT>>, <<GT>>, <<"f">>>>),
     Words(<<<<GT>>, <<"f">>>>),
     Words(<<ECHO, <<"a">>, <<"b">>, <<GT>>, <<"f">>>>),
     Words(<<ECHO, <<"a">>, <<GT, GT>>, <<"g">>>>),
     Words(<<ECHO, <<"a">>, <<GT>>, <<"x", "/", "f">>, <<GT>>, <<"f">>>>),
     Words(<<ECHO, <<"a">>, <<GT>>, <<"g">>, <<GT>>, <<"x", "/", "f">>,
             <<GT>>, <<"f">>>>),
     Words(<<ECHO, <<"a">>, <<GT>>, <<"/", "w">>, <<"1", GT>>, <<"f">>>>),
     Words(<<ECHO, <<"a">>, <<GT, GT>>, <<"/", "w">>, <<"1", GT, GT>>,
             <<"g">>, <<GT, GT>>, <<"x", "/", "g">>>>),
     Words(<<ECHO, <<"a">>, <<GT>>, <<"f">>, <<GT, GT>>, <<"f">>>>),
     Words(<<ECHO, <<"a">>, <<GT, GT>>, <<"g">>, <<GT>>, <<"g">>>>),
     Words(<<ECHO, <<"a">>, <<GT>>, <<"g">>, <<"1", GT>>, <<"g">>>>),
     Words(<<<<"2", GT, GT>>, <<"g">>, <<GT>>, <<"f">>>>),
     Words(<<ECHO, <<DQ, "a", BS, DQ, BS, "a", DQ>>, <<BS, "a">>>>),
     Words(<<<<"r">>>>),
     Words(<<<<"r">>, <<"2", GT>>, <<"x", "/", "f">>, <<"2", GT>>,
             <<"f">>, <<"2", GT, GT>>, <<"g">>>>),
     Words(<<<<"p">>, <<GT>>, <<"f">>>>),
     Words(<<<<"q">>>>),
     Words(<<<<"q">>, <<GT>>, <<"f">>, <<"2", GT>>, <<"f">>>>),
     Words(<<<<"q">>, <<GT>>, <<"x", "/", "f">>, <<"2", GT>>, <<"f">>>>),
     Words(<<<<"n">>>>),
     Words(<<EXIT>>),
     Words(<<EXIT, <<"3">>, <<GT>>, <<"f">>>>),
     Words(<<EXIT, <<"a">>>>),
     Words(<<EXIT, <<"-", "1">>>>),
     Words(<<EXIT, <<"9", "9", "9", "9", "9", "9", "9", "9", "9", "9">>>>),
     Words(<<CD>>),
     Words(<<CD, DIR_D>>),
     Words(<<CD, <<"/", "m">>, <<GT>>, <<"f">>>>),
     Words(<<CD, DIR_D, DIR_D>>),
     Words(<<CD, <<"~">>>>),
     Words(<<CD, <<"~", "/", "d">>>>),
     Words(<<CD, <<"~", "a">>>>),
     Words(<<PWD>>),
     Words(<<TYPE, ECHO, <<"p">>, <<"r">>>>)}

InitRepl ==
    /\ pc = "read"
    /\ path_env = Some(ReplPath)
    /\ home_env \in {None, Some(DIR_D)}
    /\ cwd = ROOT
    /\ files = ReplFiles
    /\ dirs = ReplDirs
    /\ line = <<>>
    /\ input = <<>>
    /\ tokens = <<>>
    /\ next = <<>>
    /\ next_start_idx = 0
    /\ in_single_quotes = FALSE
    /\ in_double_quotes = FALSE
    /\ prev_end_quote_idx = None
    /\ escaped = FALSE
    /\ idx = 0
    /\ result = NoResult
    /\ hist = <<>>
    /\ nextSrc = <<>>
    /\ tokSrc = <<>>
    /\ SplitIdle
    /\ lookup = NoResult
    /\ out_buf = <<>>
    /\ err_buf = <<>>
    /\ ended = "no"
    /\ exit_code = None
    /\ remaining = MaxReplLines
    /\ term_out = <<>>
    /\ term_err = <<>>
    /\ fs_log = <<>>
    /\ spawned = <<>>
    /\ cwd0 = ROOT
    /\ files0 = ReplFiles

\* prompt_and_readline yields a line (the empty line after an interrupt) and
\* tokenize is called on it. The histories start again for the new line.
ReplRead ==
    /\ pc = "read"
    /\ remaining > 0
    /\ \E l \in ReplLines : TokenizeCalled(l)
    /\ remaining' = remaining - 1
    /\ tidx' = 0
    /\ split' = NewSplit
    /\ redirect' = None
    /\ split_result' = NoResult
    /\ lookup' = NoResult
    /\ out_buf' = <<>>
    /\ err_buf' = <<>>
    /\ term_out' = <<>>
    /\ term_err' = <<>>
    /\ fs_log' = <<>>
    /\ spawned' = <<>>
    /\ cwd0' = cwd
    /\ files0' = files
    /\ UNCHANGED <<hostVars, ended, exit_code>>

\* prompt_and_readline fails, at end of input or otherwise, and repl
\* returns.
ReplReadFails ==
    /\ pc = "read"
    /\ pc' = "ended"
    /\ \E how \in {"eof", "read_error"} : ended' = how
    /\ UNCHANGED <<tokens, tokVars, splitVars, hostVars, lookup, out_buf,
                   err_buf, exit_code, remaining, term_out, term_err,
                   fs_log, spawned, cwd0, files0>>

\* ReplTokenizeErr with the error returned from repl.
ReplTokenizeErr_Returns ==
    /\ pc = "err"
    /\ term_err' = term_err \o <<result.msg, NL>>
    /\ pc' = "ended"
    /\ ended' = "tokenize_error"
    /\ UNCHANGED <<tokens, tokVars, splitVars, hostVars, lookup, out_buf,
                   err_buf, exit_code, remaining, term_out, fs_log, spawned,
                   cwd0, files0>>

\* tokenize returned Err(e): e goes to stderr and the loop continues.
ReplTokenizeErr ==
    /\ pc = "err"
    /\ term_err' = term_err \o <<result.msg, NL>>
    /\ pc' = "read"
    /\ UNCHANGED <<tokens, tokVars, splitVars, hostVars, lookup, out_buf,
                   err_buf, ended, exit_code, remaining, term_out, fs_log,
                   spawned, cwd0, files0>>

\* tokenize panicked: the process is gone.
ReplPanic ==
    /\ pc = "panic"
    /\ pc' = "ended"
    /\ ended' = "panic"
    /\ UNCHANGED <<tokens, tokVars, splitVars, hostVars, lookup, out_buf,
                   err_buf, exit_code, remaining, term_out, term_err,
                   fs_log, spawned, cwd0, files0>>

\* tokenize returned Ok(tokens): split_tokens is called on them.
ReplSplit ==
    /\ pc = "ok"
    /\ pc' = "split"
    /\ tidx' = 0
    /\ split' = NewSplit
    /\ redirect' = None
    /\ split_result' = NoResult
    /\ UNCHANGED <<tokens, tokVars, hostVars, replVars>>

\* split_tokens returned Err(e): e goes to stderr and the loop continues.
ReplSplitErr ==
    /\ pc = "split_err"
    /\ term_err' = term_err \o <<split_result.msg>> \o split_result.token
                            \o <<NL>>
    /\ pc' = "read"
    /\ UNCHANGED <<tokens, tokVars, splitVars, hostVars, lookup, out_buf,
                   err_buf, ended, exit_code, remaining, term_out, fs_log,
                   spawned, cwd0, files0>>

\* split_tokens returned Ok(split): split.cmd_args.split_first().
cmd_args == split_result.split.cmd_args
command == cmd_args[1]
args == Tail(cmd_args)

\* ReplNoCommand going on to redirect_and_append instead of continuing.
ReplNoCommand_Redirects ==
    /\ pc = "split_ok"
    /\ cmd_args = <<>>
    /\ pc' = "redirect"
    /\ UNCHANGED <<tokens, tokVars, splitVars, hostVars, replVars>>

\* No command on the line: continue.
ReplNoCommand ==
    /\ pc = "split_ok"
    /\ cmd_args = <<>>
    /\ pc' = "read"
    /\ UNCHANGED <<tokens, tokVars, splitVars, hostVars, replVars>>

\* The command is about to be parsed and executed.
Executing(kind) ==
    /\ pc = "split_ok"
    /\ cmd_args # <<>>
    /\ Parse(command).kind = kind

\* exit: process::exit(code); nothing after it runs.
ExecExit ==
    /\ Executing("Exit")
    /\ exit_code' = Some(ExitCodeOf(args))
    /\ ended' = "exit"
    /\ pc' = "ended"
    /\ UNCHANGED <<tokens, tokVars, splitVars, hostVars, lookup, out_buf,
                   err_buf, remaining, term_out, term_err, fs_log, spawned,
                   cwd0, files0>>

\* echo: the arguments joined with spaces, and a newline, to out.
ExecEcho ==
    /\ Executing("Echo")
    /\ out_buf' = JoinWith(args, <<SP>>) \o <<NL>>
    /\ pc' = "redirect"
    /\ UNCHANGED <<tokens, tokVars, splitVars, hostVars, lookup, err_buf,
                   ended, exit_code, remaining, term_out, term_err, fs_log,
                   spawned, cwd0, files0>>

\* type: one report per argument, joined with newlines, written once.
ExecType ==
    /\ Executing("Type")
    /\ out_buf' = JoinWith([i \in 1 .. Len(args) |-> TypeOutput(args[i])],
                           <<NL>>) \o <<NL>>
    /\ pc' = "redirect"
    /\ UNCHANGED <<tokens, tokVars, splitVars, hostVars, lookup, err_buf,
                   ended, exit_code, remaining, term_out, term_err, fs_log,
                   spawned, cwd0, files0>>

\* pwd: the working directory to out; when env::current_dir() fails the
\* error leaves repl.
ExecPwd ==
    /\ Executing("Pwd")
    /\ \E current_dir_ok \in BOOLEAN :
           IF current_dir_ok
           THEN /\ out_buf' = cwd \o <<NL>>
                /\ pc' = "redirect"
                /\ UNCHANGED ended
           ELSE /\ ended' = "pwd_failed"
                /\ pc' = "ended"
                /\ UNCHANGED out_buf
    /\ UNCHANGED <<tokens, tokVars, splitVars, hostVars, lookup, err_buf,
                   exit_code, remaining, term_out, term_err, fs_log, spawned,
                   cwd0, files0>>

\* cd: nothing without an argument, a message on err with more than one,
\* otherwise set_current_dir on the expanded argument and a message on out
\* when that fails.
ExecCd ==
    /\ Executing("Cd")
    /\ IF Len(args) = 0
       THEN UNCHANGED <<cwd, out_buf, err_buf>>
       ELSE IF Len(args) > 1
       THEN /\ err_buf' = <<"cd: too many arguments", NL>>
            /\ UNCHANGED <<cwd, out_buf>>
       ELSE LET dir == replace_with_home_dir(args[1]) IN
            IF CanEnter(dir)
            THEN /\ cwd' = Absolute(dir)
                 /\ UNCHANGED <<out_buf, err_buf>>
            ELSE /\ out_buf' = <<"cd: ">> \o dir
                                 \o <<": No such file or directory", NL>>
                 /\ UNCHANGED <<cwd, err_buf>>
    /\ pc' = "redirect"
    /\ UNCHANGED <<tokens, tokVars, splitVars, path_env, home_env, files,
                   dirs, lookup, ended, exit_code, remaining, term_out,
                   term_err, fs_log, spawned, cwd0, files0>>

\* Any other command whose name find_executable_in_path does not find:
\* command_not_found on err.
ExecNotFound ==
    /\ Executing("Executable")
    /\ find_executable_in_path(command) = None
    /\ lookup' = [kind |-> "lookup", name |-> command, found |-> None]
    /\ err_buf' = command \o <<": command not found", NL>>
    /\ pc' = "redirect"
    /\ UNCHANGED <<tokens, tokVars, splitVars, hostVars, out_buf, ended,
                   exit_code, remaining, term_out, term_err, fs_log, spawned,
                   cwd0, files0>>

\* exec: the name was found, the program process::Command::new(name)
\* starts runs to its end and what it wrote goes to out and err.
ExecSpawn ==
    /\ Executing("Executable")
    /\ find_executable_in_path(command) # None
    /\ Spawn(command) # None
    /\ lookup' = [kind |-> "lookup", name |-> command,
                  found |-> find_executable_in_path(command)]
    /\ \E program \in Spawn(command) :
           /\ spawned' = Append(spawned, program)
           /\ out_buf' = ProgramStdout(program)
           /\ err_buf' = ProgramStderr(program)
    /\ pc' = "redirect"
    /\ UNCHANGED <<tokens, tokVars, splitVars, hostVars, ended, exit_code,
                   remaining, term_out, term_err, fs_log, cwd0, files0>>

\* exec: the name was found and output() fails to start a program: the
\* error leaves repl.
ExecSpawnFails ==
    /\ Executing("Executable")
    /\ find_executable_in_path(command) # None
    /\ Spawn(command) = None
    /\ lookup' = [kind |-> "lookup", name |-> command,
                  found |-> find_executable_in_path(command)]
    /\ ended' = "spawn_failed"
    /\ pc' = "ended"
    /\ UNCHANGED <<tokens, tokVars, splitVars, hostVars, out_buf, err_buf,
                   exit_code, remaining, term_out, term_err, fs_log, spawned,
                   cwd0, files0>>

\* What redirect_and_append starts from and what it leaves.
RedirectStart ==
    [files |-> files, term_out |-> term_out, term_err |-> term_err,
     fs_log |-> fs_log]
Redirected ==
    redirect_and_append(split_result.split, out_buf, err_buf, RedirectStart)

\* redirect_and_append, then the loop continues.
ReplRedirect ==
    /\ pc = "redirect"
    /\ files' = Redirected.files
    /\ term_out' = Redirected.term_out
    /\ term_err' = Redirected.term_err
    /\ fs_log' = Redirected.fs_log
    /\ pc' = "read"
    /\ UNCHANGED <<tokens, tokVars, splitVars, path_env, home_env, cwd, dirs,
                   lookup, out_buf, err_buf, ended, exit_code, remaining,
                   spawned, cwd0, files0>>

NextRepl ==
    \/ ReplRead
    \/ ReplReadFails
    \/ TokenizeStart
    \/ ScanDoubleQuote
    \/ ScanSingleQuote
    \/ ScanWhitespace
    \/ ScanBackslash
    \/ ScanEscapedInDouble
    \/ ScanNormal
    \/ TokenizeFinish
    \/ ReplTokenizeErr
    \/ ReplPanic
    \/ ReplSplit
    \/ SplitParseError
    \/ SplitOperator
    \/ SplitTarget
    \/ SplitCmdArg
    \/ SplitFinish
    \/ ReplSplitErr
    \/ ReplNoCommand
    \/ ExecExit
    \/ ExecEcho
    \/ ExecType
    \/ ExecPwd
    \/ ExecCd
    \/ ExecNotFound
    \/ ExecSpawn
    \/ ExecSpawnFails
    \/ ReplRedirect

SpecRepl == InitRepl /\ [][NextRepl]_vars

\* The loop keeps running as long as it can take a step.
FairRepl == SpecRepl /\ WF_vars(NextRepl)

\* ------------------------------------------------------------------------
\* Properties of tokenize
\* ------------------------------------------------------------------------

\* tokenize has returned or aborted.
TokenizeEnded == pc \in {"ok", "err", "panic"}

RECURSIVE Flatten(_)
Flatten(ss) == IF ss = <<>> THEN <<>> ELSE Head(ss) \o Flatten(Tail(ss))

\* Every character output so far, and the offset in input each came from.
OutChars == Flatten(tokens) \o next
OutSrcs == Flatten(tokSrc) \o nextSrc

\* The number of characters trim() removed at the front of line.
Lead == Len(line) - Len(TrimStart(line))

\* The i-th scanned character (0-based) and the flags it was scanned under.
Scanned(i) == hist[i + 1]

ScannedOffsets == 0 .. (Len(hist) - 1)

\* C1: when the scan ends outside both single and double quotes, tokenize
\* returns a token sequence: it neither returns an error nor aborts.
C1_BalancedNeverFails ==
    (TokenizeEnded /\ idx = Len(input)
        /\ ~in_single_quotes /\ ~in_double_quotes)
    => (pc = "ok" /\ result.kind = "Ok")

\* s is a fragment quoted with c whose contents are literal inside c.
IsQuoted(s, c) ==
    /\ Len(s) >= 2
    /\ s[1] = c
    /\ s[Len(s)] = c
    /\ \A i \in 2 .. (Len(s) - 1) :
           s[i] \notin ({c} \cup (IF c = DQ THEN {BS} ELSE {}))

Contents(s) == SubSeq(s, 2, Len(s) - 1)

\* s is non-empty bare text: no quote, backslash or whitespace.
IsBare(s) ==
    /\ s # <<>>
    /\ \A i \in 1 .. Len(s) : s[i] \notin {DQ, SQ, BS, SP, NL}

\* C2: a line made of two quoted fragments with no character between them
\* yields exactly one token, the contents of the first followed by the
\* contents of the second; a quoted fragment directly followed by bare text
\* yields one token likewise.  (Two empty fragments are left to the claim
\* about empty quoted strings.)
C2_AdjacentFragmentsMerge ==
    TokenizeEnded =>
        \A k \in 2 .. Len(line) :
            LET q1 == SubSeq(line, 1, k)
                rest == SubSeq(line, k + 1, Len(line))
            IN  \A c1 \in {DQ, SQ} :
                    IsQuoted(q1, c1) =>
                        /\ \A c2 \in {DQ, SQ} :
                               (IsQuoted(rest, c2)
                                   /\ Contents(q1) \o Contents(rest) # <<>>)
                               => (pc = "ok" /\ tokens =
                                      <<Contents(q1) \o Contents(rest)>>)
                        /\ IsBare(rest)
                               => (pc = "ok"
                                   /\ tokens = <<Contents(q1) \o rest>>)

\* The offsets of the unescaped whitespace scanned outside any quote.
Separators ==
    {i \in ScannedOffsets :
        /\ Scanned(i).arm = "whitespace"
        /\ ~Scanned(i).sq
        /\ ~Scanned(i).dq}

\* C3: in the result of tokenize, two characters separated in the input by
\* unescaped whitespace outside any quote are never in the same token, and
\* that whitespace is in no token.
C3_WhitespaceSeparates ==
    pc = "ok" =>
        \A t \in 1 .. Len(tokSrc) :
            /\ \A a, b \in 1 .. Len(tokSrc[t]) :
                   \A k \in Separators :
                       ~(tokSrc[t][a] < k /\ k < tokSrc[t][b])
            /\ \A a \in 1 .. Len(tokSrc[t]) : tokSrc[t][a] \notin Separators

\* The offsets of the backslashes that set `escaped` outside any quote.
OutsideBackslashes ==
    {b \in ScannedOffsets :
        /\ Scanned(b).arm = "backslash"
        /\ ~Scanned(b).sq
        /\ ~Scanned(b).dq}

\* The character at offset i of input was output, as character c.
OutputAs(i, c) ==
    \E j \in 1 .. Len(OutSrcs) : OutSrcs[j] = i /\ OutChars[j] = c

\* C4: outside any quote, a backslash followed in the line by a character X
\* contributes exactly X, and the backslash itself is never output,
\* whatever X is and wherever the pair stands in the line.
C4_EscapeOutsideQuotes ==
    \A b \in OutsideBackslashes :
        /\ \A j \in 1 .. Len(OutSrcs) : OutSrcs[j] # b
        /\ (b + 1 < Len(hist)) => OutputAs(b + 1, Scanned(b + 1).ch)
        /\ (pc = "ok" /\ Lead + b + 1 < Len(line)) =>
               /\ b + 1 < Len(hist)
               /\ OutputAs(b + 1, line[Lead + b + 2])

\* The characters the claim names as escapable inside double quotes.
C5_Escapable == {"\\", "$", "\n", "\""}

\* C5: inside double quotes a backslash followed by X contributes only X
\* when X is a backslash, a dollar sign, a newline or a double quote (and
\* the quote stays open); for any other X it contributes the backslash and
\* X; a single quote inside double quotes is an ordinary character and opens
\* nothing.
C5_EscapeInDoubleQuotes ==
    /\ [][(Scanning /\ in_double_quotes /\ escaped) =>
            /\ next' = next \o (IF ch \in C5_Escapable THEN <<ch>>
                                                       ELSE <<"\\", ch>>)
            /\ tokens' = tokens
            /\ in_double_quotes'
            /\ ~in_single_quotes'
            /\ ~escaped'
            /\ pc' = "scan"]_vars
    /\ [][(Scanning /\ in_double_quotes /\ ~escaped /\ ch = "'") =>
            /\ next' = Append(next, "'")
            /\ tokens' = tokens
            /\ in_double_quotes'
            /\ ~in_single_quotes'
            /\ pc' = "scan"]_vars
    /\ [](pc = "ok" =>
            \A i \in ScannedOffsets :
                (Scanned(i).dq /\ Scanned(i).esc) =>
                    /\ OutputAs(i, Scanned(i).ch)
                    /\ OutputAs(i - 1, "\\")
                           <=> Scanned(i).ch \notin C5_Escapable)

\* An escaped double quote inside double quotes was scanned and the line
\* tokenized to the end.
C5_Witness ==
    /\ pc = "ok"
    /\ \E i \in ScannedOffsets :
           Scanned(i).dq /\ Scanned(i).esc /\ Scanned(i).ch = DQ

\* The last n elements of s.
Suffix(s, n) == SubSeq(s, Len(s) - n + 1, Len(s))

\* C6: inside single quotes every character up to the next single quote is
\* copied unchanged: a backslash is literal and never sets the escape
\* state, a double quote opens nothing, whitespace is kept as written.
C6_SingleQuotesLiteral ==
    /\ [][(Scanning /\ in_single_quotes /\ ch # "'") =>
            /\ next' = Append(next, ch)
            /\ tokens' = tokens
            /\ in_single_quotes'
            /\ ~in_double_quotes'
            /\ ~escaped'
            /\ pc' = "scan"]_vars
    /\ [][(Scanning /\ in_single_quotes /\ ch = "'") =>
            ~in_single_quotes']_vars
    /\ [](in_single_quotes =>
            /\ ~escaped
            /\ ~in_double_quotes
            /\ Len(next) >= idx - next_start_idx - 1
            /\ Suffix(next, idx - next_start_idx - 1)
                   = SubSeq(input, next_start_idx + 2, idx))

\* A backslash was scanned inside single quotes and the line tokenized to
\* the end.
C6_Witness ==
    /\ pc = "ok"
    /\ \E i \in ScannedOffsets : Scanned(i).sq /\ Scanned(i).ch = BS

\* C7: if the input ends while the scan is inside a single or a double
\* quote, tokenize returns an error and no token sequence, however many
\* tokens were completed before the unterminated quote.
C7_UnterminatedQuoteFails ==
    (TokenizeEnded /\ idx = Len(input)
        /\ (in_single_quotes \/ in_double_quotes))
    => /\ pc = "err"
       /\ result = [kind |-> "Err", msg |-> "quotes unfinished"]

\* The input ended inside a quote after whole tokens had been pushed.
C7_Witness ==
    /\ pc = "err"
    /\ Len(tokens) >= 2
    /\ idx = Len(input)
    /\ (in_single_quotes \/ in_double_quotes)

\* ------------------------------------------------------------------------
\* Properties of split_tokens
\* ------------------------------------------------------------------------

\* The operator spellings as the claims list them.
ClaimedOperators ==
    {<<">">>, <<"1", ">">>, <<">", ">">>, <<"1", ">", ">">>,
     <<"2", ">">>, <<"2", ">", ">">>}

\* The list the claims send a non-operator token to, by the token before it.
ClaimedRoute(prev) ==
    IF prev \in {<<">">>, <<"1", ">">>} THEN "outs"
    ELSE IF prev \in {<<">", ">">>, <<"1", ">", ">">>} THEN "append_outs"
    ELSE IF prev = <<"2", ">">> THEN "errs"
    ELSE IF prev = <<"2", ">", ">">> THEN "append_errs"
    ELSE "cmd_args"

\* The non-operator tokens among the first n of toks that the claims send
\* to list f, in input order.
RECURSIVE RoutedTo(_, _, _)
RoutedTo(toks, n, f) ==
    IF n = 0 THEN <<>>
    ELSE LET t == toks[n]
             route == IF n = 1 THEN "cmd_args" ELSE ClaimedRoute(toks[n - 1])
         IN  IF t \notin ClaimedOperators /\ route = f
             THEN Append(RoutedTo(toks, n - 1, f), t)
             ELSE RoutedTo(toks, n - 1, f)

SplitFields == {"cmd_args", "outs", "append_outs", "errs", "append_errs"}

\* C8: split_tokens routes every non-operator token by the token directly
\* before it (after `>`/`1>` to outs, after `>>`/`1>>` to append_outs, after
\* `2>` to errs, after `2>>` to append_errs, otherwise to cmd_args); every
\* list keeps the input order and an operator applies to one token only.
C8_RoutedByPrecedingToken ==
    pc = "split_ok" =>
        /\ split_result.kind = "Ok"
        /\ \A f \in SplitFields :
               split_result.split[f] = RoutedTo(tokens, Len(tokens), f)

\* A successful split of four tokens with a stdout-truncate target and a
\* stderr-append target.
C8_Witness ==
    /\ pc = "split_ok"
    /\ Len(tokens) = 4
    /\ split_result.split.outs # <<>>
    /\ split_result.split.append_errs # <<>>

\* The number of elements of s equal to x.
RECURSIVE Count(_, _)
Count(s, x) ==
    IF s = <<>> THEN 0
    ELSE (IF Head(s) = x THEN 1 ELSE 0) + Count(Tail(s), x)

\* s can be obtained from t by deleting elements.
RECURSIVE IsSubsequence(_, _)
IsSubsequence(s, t) ==
    IF s = <<>> THEN TRUE
    ELSE IF t = <<>> THEN FALSE
    ELSE IF Head(s) = Head(t) THEN IsSubsequence(Tail(s), Tail(t))
    ELSE IsSubsequence(s, Tail(t))

\* The number of times x occurs in the five lists of sp together.
CountInSplit(sp, x) ==
    Count(sp.cmd_args, x) + Count(sp.outs, x) + Count(sp.append_outs, x)
        + Count(sp.errs, x) + Count(sp.append_errs, x)

Range(s) == {s[i] : i \in 1 .. Len(s)}

\* C9 as stated: on success every token of the input is in exactly one of
\* the five lists, in its original relative order (none lost, none
\* duplicated).
C9_EveryTokenKept ==
    pc = "split_ok" =>
        /\ \A x \in Range(tokens) :
               CountInSplit(split_result.split, x) = Count(tokens, x)
        /\ \A f \in SplitFields : IsSubsequence(split_result.split[f], tokens)

\* C9 amended: on success every token of the input that is not an operator
\* spelling is in exactly one of the five lists, in its original relative
\* order; the operator tokens are in none of them.
C9_EveryNonOperatorKept ==
    pc = "split_ok" =>
        /\ \A x \in Range(tokens) :
               CountInSplit(split_result.split, x) =
                   (IF x \in ClaimedOperators THEN 0 ELSE Count(tokens, x))
        /\ \A f \in SplitFields : IsSubsequence(split_result.split[f], tokens)

\* A successful split of four tokens with an operator among them, the same
\* word twice and a target.
C9_Witness ==
    /\ pc = "split_ok"
    /\ Len(tokens) = 4
    /\ \E i \in 1 .. Len(tokens) : tokens[i] \in ClaimedOperators
    /\ \E i, j \in 1 .. Len(tokens) : i # j /\ tokens[i] = tokens[j]
    /\ Len(split_result.split.cmd_args) = 2

\* Positions i such that tokens i and i + 1 are both operator spellings.
OperatorPairs ==
    {i \in 1 .. (Len(tokens) - 1) :
        tokens[i] \in ClaimedOperators /\ tokens[i + 1] \in ClaimedOperators}

\* C10: split_tokens fails with "parse error near <token>" exactly when an
\* operator token directly follows another operator token, <token> being
\* the second of the two; the error carries no Split.
C10_ParseErrorOnOperatorPair ==
    pc \in {"split_ok", "split_err"} =>
        /\ (pc = "split_err") <=> (OperatorPairs # {})
        /\ pc = "split_err" =>
               split_result = [kind |-> "Err", msg |-> "parse error near ",
                               token |-> tokens[Least(OperatorPairs) + 1]]
        /\ pc = "split_ok" => split_result.kind = "Ok"

\* A parse error at the third token, after a command word was collected.
C10_Witness ==
    /\ pc = "split_err"
    /\ split.cmd_args # <<>>
    /\ tidx = 2

\* ------------------------------------------------------------------------
\* Properties of the round trip
\* ------------------------------------------------------------------------

\* The split succeeded and tokenize has run on its joined cmd_args.
RoundTripEnded == TokenizeEnded /\ split_result.kind = "Ok"

\* C11 as stated: for every token sequence on which split_tokens succeeds,
\* tokenize of its cmd_args joined with single spaces succeeds and returns
\* the same cmd_args.
C11_RoundTrip ==
    RoundTripEnded =>
        (pc = "ok" /\ tokens = split_result.split.cmd_args)

\* t is non-empty and holds no whitespace, quote or backslash.
IsPlainWord(t) ==
    /\ t # <<>>
    /\ \A i \in 1 .. Len(t) : t[i] \notin {" ", "\n", "\"", "'", "\\"}

\* C11 amended: the round trip holds whenever every token of cmd_args is
\* non-empty and holds no whitespace, quote or backslash.
C11_RoundTripOfPlainWords ==
    (RoundTripEnded
        /\ \A i \in 1 .. Len(split_result.split.cmd_args) :
               IsPlainWord(split_result.split.cmd_args[i]))
    => (pc = "ok" /\ tokens = split_result.split.cmd_args)

\* Two plain words went through the round trip, beside a redirect target.
C11_Witness ==
    /\ RoundTripEnded
    /\ Len(split_result.split.cmd_args) = 2
    /\ \A i \in 1 .. 2 : IsPlainWord(split_result.split.cmd_args[i])
    /\ split_result.split.cmd_args[1] # split_result.split.cmd_args[2]

\* ------------------------------------------------------------------------
\* Properties of find_executable_in_path
\* ------------------------------------------------------------------------

\* The directories of the search path, in order; none when PATH is unset.
SearchPath == IF path_env = None THEN <<>> ELSE CHOOSE ps \in path_env : TRUE

\* Directory p can be read and lists a regular file named n.
ListsRegularFile(p, n) ==
    /\ p \in DOMAIN dirs
    /\ dirs[p].readable
    /\ \E i \in 1 .. Len(dirs[p].entries) :
           /\ dirs[p].entries[i].kind = "Ok"
           /\ dirs[p].entries[i].is_file
           /\ dirs[p].entries[i].name = n

\* The positions of the search path whose directory lists such a file.
Holders(n) ==
    {i \in 1 .. Len(SearchPath) : ListsRegularFile(SearchPath[i], n)}

\* C18: the lookup returns the path of the name in the earliest directory of
\* the search path that lists a regular file of exactly that name, skipping
\* unreadable directories and entries that are not regular files, and
\* returns none only when no directory lists such a file.
C18_EarliestDirectoryWins ==
    pc = "resolved" =>
        IF Holders(lookup.name) = {} THEN lookup.found = None
        ELSE lookup.found =
                 Some(PathOf(SearchPath[Least(Holders(lookup.name))],
                             lookup.name))

\* The match came from the second directory: the first one is unreadable,
\* or lists the name only as something that is not a regular file.
C18_Witness ==
    /\ pc = "resolved"
    /\ Len(SearchPath) = 2
    /\ SearchPath[1] # SearchPath[2]
    /\ lookup.found = Some(PathOf(SearchPath[2], lookup.name))
    /\ \/ ReadDir(SearchPath[1]) = None
       \/ \E es \in ReadDir(SearchPath[1]) :
              \E i \in 1 .. Len(es) :
                  es[i].kind = "Ok" /\ es[i].name = lookup.name

\* ------------------------------------------------------------------------
\* Properties of repl
\* ------------------------------------------------------------------------

\* C12 as stated: the loop ends only on exit or on a fatal host failure
\* (input cannot be read, working directory cannot be obtained); a tokenizer
\* or splitter error, an unknown command, an external command that cannot
\* be started and a failing redirect target never end it.
C12_LoopEndsOnlyOnExitOrFatal ==
    ended # "no" => ended \in {"exit", "eof", "read_error", "pwd_failed"}

\* The line's command has run and redirect_and_append has returned.
AfterRedirect ==
    pc = "read" /\ split_result.kind = "Ok" /\ cmd_args # <<>>

\* The entry redirect_to or append_to logs for a target that took buf.
Wrote(op, r, buf) == [op |-> op, path |-> r, ok |-> TRUE, data |-> buf]
\* The entry logged for a target that failed.
Failed(op, r) == [op |-> op, path |-> r, ok |-> FALSE, data |-> <<>>]

outs == split_result.split.outs
append_outs == split_result.split.append_outs
errs == split_result.split.errs
append_errs == split_result.split.append_errs

\* The terminal received out_buf exactly when the line names no output
\* target.
TerminalIffUnredirected ==
    term_out = IF outs = <<>> /\ append_outs = <<>> THEN out_buf ELSE <<>>

AbsoluteOf(targets) == {Absolute(targets[i]) : i \in 1 .. Len(targets)}

\* Target r is named once on the output side and not at all on the error
\* side: what the output side writes to it is what it holds afterwards.
OnlyOutputTarget(r) ==
    /\ Count([i \in 1 .. Len(outs \o append_outs) |->
                 Absolute((outs \o append_outs)[i])], Absolute(r)) = 1
    /\ Absolute(r) \notin AbsoluteOf(errs \o append_errs)

Works(r, buf) == CanOpen(r) /\ CanWrite(r, buf)

\* The four lists in the order redirect_and_append goes through them, each
\* with the operation on its targets and the buffer they are given.
RedirectLists ==
    <<[op |-> "create", targets |-> outs, buf |-> out_buf],
      [op |-> "append", targets |-> append_outs, buf |-> out_buf],
      [op |-> "create", targets |-> errs, buf |-> err_buf],
      [op |-> "append", targets |-> append_errs, buf |-> err_buf]>>

\* The number of targets in the lists before list k.
RECURSIVE Offset(_)
Offset(k) ==
    IF k = 1 THEN 0
    ELSE Offset(k - 1) + Len(RedirectLists[k - 1].targets)

\* Every target named on the line, as an absolute path.
AllTargets == outs \o append_outs \o errs \o append_errs
NamedOnce(r) ==
    Count([i \in 1 .. Len(AllTargets) |-> Absolute(AllTargets[i])],
          Absolute(r)) = 1

\* The report for target r when it does not take buf, nothing otherwise.
ReportOf(op, r, buf) ==
    IF Works(r, buf) THEN <<>>
    ELSE <<IF op = "create"
           THEN IF CanOpen(r) THEN "failed to write to file "
                ELSE "failed to create file "
           ELSE IF CanOpen(r) THEN "failed to append to file "
                ELSE "failed to open file ">>
         \o r \o <<": os error", NL>>

RECURSIVE ReportsOf(_, _, _)
ReportsOf(op, targets, buf) ==
    IF targets = <<>> THEN <<>>
    ELSE ReportOf(op, Head(targets), buf)
             \o ReportsOf(op, Tail(targets), buf)

\* One report per failing target, in the order of the lists, and err_buf
\* itself when the line names no error target.
ExpectedStderr ==
    ReportsOf("create", outs, out_buf)
        \o ReportsOf("append", append_outs, out_buf)
        \o ReportsOf("create", errs, err_buf)
        \o ReportsOf("append", append_errs, err_buf)
        \o (IF errs = <<>> /\ append_errs = <<>> THEN err_buf ELSE <<>>)

\* Every target of every list either fails alone or takes the whole buffer,
\* whatever the targets before and after it did.
FanOutIsolated ==
    /\ Len(fs_log) = Len(AllTargets)
    /\ term_err = ExpectedStderr
    /\ \A k \in 1 .. 4 :
         LET l == RedirectLists[k] IN
         \A i \in 1 .. Len(l.targets) :
           LET r == l.targets[i] IN
           /\ fs_log[Offset(k) + i] =
                  IF Works(r, l.buf) THEN Wrote(l.op, r, l.buf)
                  ELSE Failed(l.op, r)
           /\ (Works(r, l.buf) /\ NamedOnce(r)) =>
                  files[Absolute(r)] =
                      IF l.op = "create" THEN l.buf
                      ELSE ContentOf(files0, Absolute(r)) \o l.buf

Blank == [files |-> files0, term_out |-> <<>>, term_err |-> <<>>,
          fs_log |-> <<>>]
OutSideAlone == RedirectOutSide(split_result.split, out_buf, Blank)
ErrSideAlone == RedirectErrSide(split_result.split, err_buf, Blank)

IsInteger(t) ==
    LET ds == IF t # <<>> /\ t[1] \in {"+", "-"} THEN Tail(t) ELSE t
    IN  ds # <<>> /\ \A i \in 1 .. Len(ds) : ds[i] \in Digits

\* The digits of an integer without its sign and leading zeros.
RECURSIVE StripZeros(_)
StripZeros(ds) ==
    IF Len(ds) > 1 /\ Head(ds) = "0" THEN StripZeros(Tail(ds)) ELSE ds
Magnitude(t) == StripZeros(IF t[1] \in {"+", "-"} THEN Tail(t) ELSE t)

\* Digit strings of equal length compared as numbers.
RECURSIVE DigitsLeq(_, _)
DigitsLeq(a, b) ==
    IF a = <<>> THEN TRUE
    ELSE IF DigitValue(Head(a)) # DigitValue(Head(b))
         THEN DigitValue(Head(a)) < DigitValue(Head(b))
    ELSE DigitsLeq(Tail(a), Tail(b))

\* The integer t lies between -2147483648 and 2147483647.
FitsI32(t) ==
    \/ Len(Magnitude(t)) < 10
    \/ /\ Len(Magnitude(t)) = 10
       /\ DigitsLeq(Magnitude(t),
                    IF t[1] = "-"
                    THEN <<"2", "1", "4", "7", "4", "8", "3", "6", "4", "8">>
                    ELSE <<"2", "1", "4", "7", "4", "8", "3", "6", "4", "7">>)

\* The value of an integer that fits.
RECURSIVE SignedValue(_, _)
SignedValue(ds, sign) ==
    IF ds = <<>> THEN 0
    ELSE SignedValue(SubSeq(ds, 1, Len(ds) - 1), sign) * 10
             + sign * DigitValue(ds[Len(ds)])
IntegerValue(t) == SignedValue(Magnitude(t), IF t[1] = "-" THEN -1 ELSE 1)

\* exit has ended the process without touching anything else.
ExitedUntouched ==
    /\ fs_log = <<>>
    /\ files = files0
    /\ term_out = <<>>
    /\ term_err = <<>>

\* C16 as stated: exit ends the process with the integer its first argument
\* is, or 0 when the argument is missing or not an integer, before the
\* redirection step: no target of the line is touched, no later line read.
C16_ExitWithIntegerArgument ==
    [][/\ ended # "exit"
       /\ ended' = "exit" =>
            /\ ExitedUntouched'
            /\ IF args = <<>> \/ ~IsInteger(args[1])
               THEN exit_code' = Some(0)
               ELSE /\ FitsI32(args[1])
                    /\ exit_code' = Some(IntegerValue(args[1]))]_vars

\* C16 amended: exit ends the process with the integer its first argument
\* is, or 0 when the argument is missing, is not an integer or does not fit
\* a 32-bit signed integer, before the redirection step.
C16_ExitWithI32Argument ==
    [][/\ ended # "exit"
       /\ ended' = "exit" =>
            /\ ExitedUntouched'
            /\ IF args = <<>> \/ ~IsInteger(args[1]) \/ ~FitsI32(args[1])
               THEN exit_code' = Some(0)
               ELSE exit_code' = Some(IntegerValue(args[1]))]_vars

\* exit 3 > f has ended the process with 3 while input was left, and f was
\* not created.
C16_Witness ==
    /\ ended = "exit"
    /\ exit_code = Some(3)
    /\ outs # <<>>
    /\ \A i \in 1 .. Len(outs) : Absolute(outs[i]) \notin DOMAIN files
    /\ remaining > 0

\* The argument of cd with a leading `~` segment replaced by HOME.
TildeExpanded(arg) ==
    IF arg = <<"~">> THEN home_dir
    ELSE IF Len(arg) >= 2 /\ arg[1] = "~" /\ arg[2] = "/"
         THEN home_dir \o SubSeq(arg, 2, Len(arg))
    ELSE arg

\* The cd about to be executed can enter its target.
CdEnters ==
    /\ Executing("Cd")
    /\ Len(args) = 1
    /\ Absolute(TildeExpanded(args[1])) \in DOMAIN dirs

\* The working directory changes only by a cd that enters its target, and
\* the other forms of cd report as they should and go on to redirection.
CdFrame ==
    /\ cwd' # cwd => CdEnters /\ cwd' = Absolute(TildeExpanded(args[1]))
    /\ (Executing("Cd") /\ ~CdEnters) =>
           /\ cwd' = cwd
           /\ pc' = "redirect"
           /\ ended' = "no"
           /\ Len(args) = 0 => out_buf' = <<>> /\ err_buf' = <<>>
           /\ Len(args) > 1 =>
                  /\ out_buf' = <<>>
                  /\ err_buf' = <<"cd: too many arguments", NL>>
           /\ Len(args) = 1 =>
                  /\ out_buf' = <<"cd: ">> \o TildeExpanded(args[1])
                                  \o <<": No such file or directory", NL>>
                  /\ err_buf' = <<>>

\* C17 as stated: the working directory changes only through a cd with one
\* argument whose tilde-expanded target can be entered; every other
\* command and the three other forms of cd leave it unchanged, and none of
\* them ends the loop.
C17_OnlyCdChangesDirectory ==
    [][/\ CdFrame
       /\ (pc = "split_ok" /\ cmd_args # <<>> /\ ~CdEnters) =>
              ended' = "no"]_vars

\* C17 amended: as stated, with "does not end the loop" said of the three
\* forms of cd only.
C17_OnlyCdChangesDirectoryCdGoesOn == [][CdFrame]_vars

\* cd ~/d has left the directory the line started in and entered /d.
C17_Witness ==
    /\ pc = "redirect"
    /\ cmd_args = <<CD, <<"~", "/", "d">>>>
    /\ cwd # cwd0
    /\ cwd = DIR_D

\* C19 as stated: when the name of an external command resolves to a path,
\* the program run is the file at that path, the one type reports, and what
\* it writes becomes out_buf and err_buf; when the lookup finds nothing,
\* nothing is run and "<name>: command not found" goes to err only.
C19_RunsTheResolvedPath ==
    (lookup.kind = "lookup" /\ pc = "redirect") =>
        IF lookup.found = None
        THEN /\ spawned = <<>>
             /\ out_buf = <<>>
             /\ err_buf = lookup.name \o <<": command not found", NL>>
        ELSE \E path \in lookup.found :
                 /\ TypeOutput(lookup.name) = lookup.name \o <<" is ">> \o path
                 /\ spawned = <<path>>
                 /\ out_buf = ProgramStdout(path)
                 /\ err_buf = ProgramStderr(path)

\* Nothing has been executed or touched since the line was read.
Untouched ==
    /\ files = files0
    /\ cwd = cwd0
    /\ spawned = <<>>
    /\ fs_log = <<>>
    /\ out_buf = <<>>
    /\ err_buf = <<>>
    /\ term_out = <<>>
    /\ exit_code = None

\* tokenize or split_tokens has returned an error.
LineFailed == pc \in {"err", "split_err"}

\* The text of the error tokenize or split_tokens returned.
ErrorText ==
    IF pc = "err" THEN <<"quotes unfinished">>
    ELSE <<"parse error near ">> \o tokens[tidx + 1]

C21_ScanFlags ==
    /\ ~(in_single_quotes /\ in_double_quotes)
    /\ escaped =>
           /\ ~in_single_quotes
           /\ idx >= 1
           /\ Len(hist) = idx
           /\ input[idx] = BS
           /\ ~hist[idx].esc
           /\ ~hist[idx].sq

\* The scan stands right after a backslash inside double quotes, and an
\* escaped character was consumed earlier on the line.
C21_Witness ==
    /\ pc = "scan"
    /\ escaped
    /\ in_double_quotes
    /\ \E i \in 1 .. Len(hist) : hist[i].esc

\* s is made only of whitespace and of empty quoted strings.
RECURSIVE OnlyEmptyQuotes(_)
OnlyEmptyQuotes(s) ==
    IF s = <<>> THEN TRUE
    ELSE IF IsWhitespace(s[1]) THEN OnlyEmptyQuotes(Tail(s))
    ELSE IF Len(s) >= 2 /\ s[1] \in {DQ, SQ} /\ s[2] = s[1]
         THEN OnlyEmptyQuotes(Tail(Tail(s)))
    ELSE FALSE

\* C22: no token of tokenize is empty, during the scan and in its result;
\* a line made only of empty quoted strings and whitespace yields no token.
C22_NoEmptyToken ==
    /\ \A i \in 1 .. Len(tokens) : tokens[i] # <<>>
    /\ (TokenizeEnded /\ OnlyEmptyQuotes(line)) =>
           (pc = "ok" /\ result = [kind |-> "Ok", tokens |-> <<>>])

\* tokenize returned no token for a line holding an empty double-quoted
\* string, an empty single-quoted string and whitespace between them.
C22_Witness ==
    /\ pc = "ok"
    /\ OnlyEmptyQuotes(line)
    /\ \E i, j, k \in 1 .. Len(input) :
           input[i] = DQ /\ input[j] = SQ /\ IsWhitespace(input[k])
    /\ result.tokens = <<>>

\* ------------------------------------------------------------------------
\* Properties of lines without a command and of the order of redirection
\* ------------------------------------------------------------------------

\* split_tokens returned a Split with no command in it.
NoCommand == pc = "split_ok" /\ cmd_args = <<>>

\* C23: a line whose cmd_args is empty after splitting executes nothing and
\* touches no file: no target of the line is created, truncated or appended
\* to, nothing is written to the terminal, and the loop reads the next
\* line.
C23_NoCommandTouchesNothing ==
    [][NoCommand =>
          /\ Untouched
          /\ Untouched'
          /\ term_err = <<>>
          /\ term_err' = <<>>
          /\ ended' = "no"
          /\ pc' = "read"]_vars

\* A line of redirect operators and targets only was split and left behind:
\* its targets, one of them an existing file, are as they were.
C23_Witness ==
    /\ pc = "read"
    /\ split_result.kind = "Ok"
    /\ cmd_args = <<>>
    /\ outs # <<>>
    /\ \E i \in 1 .. Len(append_errs) :
           Absolute(append_errs[i]) \in DOMAIN files
    /\ \A i \in 1 .. Len(outs) : Absolute(outs[i]) \notin DOMAIN files
    /\ files = files0
    /\ ended = "no"

\* buf written n times in a row.
RECURSIVE Repeat(_, _)
Repeat(buf, n) == IF n = 0 THEN <<>> ELSE buf \o Repeat(buf, n - 1)

\* The absolute paths of a list of targets, in its order.
AbsoluteSeq(targets) == [i \in 1 .. Len(targets) |-> Absolute(targets[i])]

\* C24: the targets of a line are served in the order outs, append_outs,
\* errs, append_errs, each list in its own order, wherever the operators
\* stand in the line; so a path that takes writes and is named on the
\* output side only holds out_buf once when `>` names it, however often,
\* plus once for every `>>` that names it.
C24_FixedRedirectOrder ==
    AfterRedirect =>
        /\ Len(fs_log) = Len(AllTargets)
        /\ \A k \in 1 .. 4 :
               \A i \in 1 .. Len(RedirectLists[k].targets) :
                   /\ fs_log[Offset(k) + i].op = RedirectLists[k].op
                   /\ fs_log[Offset(k) + i].path =
                          RedirectLists[k].targets[i]
        /\ \A i \in 1 .. Len(outs \o append_outs) :
               LET r == (outs \o append_outs)[i] IN
               (Works(r, out_buf)
                  /\ Absolute(r) \notin AbsoluteOf(errs \o append_errs))
               => files[Absolute(r)] =
                      (IF Absolute(r) \in AbsoluteOf(outs) THEN out_buf
                       ELSE ContentOf(files0, Absolute(r)))
                      \o Repeat(out_buf,
                                Count(AbsoluteSeq(append_outs), Absolute(r)))

\* The operator `>>` stood before `>` in the line, both naming the same
\* existing file, and the file holds out_buf twice and nothing else.
C24_Witness ==
    /\ AfterRedirect
    /\ out_buf # <<>>
    /\ \E i, j \in 1 .. Len(tokens) :
           /\ i < j
           /\ RedirectOf(tokens[i]) = "AppendOut"
           /\ RedirectOf(tokens[j]) = "Out"
           /\ tokens[i + 1] = tokens[j + 1]
           /\ Absolute(tokens[i + 1]) \in DOMAIN files0
           /\ files0[Absolute(tokens[i + 1])] # <<>>
           /\ files[Absolute(tokens[i + 1])] = out_buf \o out_buf

====
